---- MODULE Spec2Model ----
(***************************************************************************)
(* Model of the HTTP -> Socket.IO bridge of src/src/index.ts.              *)
(*                                                                         *)
(* The program runs on one event loop: every HTTP handler, socket event    *)
(* listener, acknowledgement callback and timer callback runs to its next  *)
(* suspension point without interleaving.  One action below is one such    *)
(* callback, together with the promise continuations (microtasks) it       *)
(* releases.                                                               *)
(***************************************************************************)
EXTENDS Integers, Sequences, FiniteSets, TLC

\* ---------------------------------------------------------------- bounds
MaxReq == 2          \* HTTP requests that arrive
MaxChallenges == 1   \* "loginRequired" events of one transport
MaxPush == 1         \* push events (monitorList / update / delete) in Spec
MaxPushSeq == 3      \* push events in CacheSpec
MaxLogins == 3       \* "loginRequired" events of one transport in LoginSpec

\* ---------------------------------------------------------------- values
Undefined == "undefined"            \* a field absent from req.body (falsy)
Uris == {"u1", "u2"}
Credentials == {"c1", "c2"}
Events == {"ping"}
Payloads == {"p"}
Reasons == {"transport close"}      \* reason argument of "disconnect"
Ids == {1, 2}
Types == {"group", "http"}
Names == {"G"}
Reqs == 1 .. MaxReq

\* The monitor records the server pushes.
Entities == [id : Ids, type : Types, name : Names]

\* Acknowledgement payloads of a generic emit: { ok, msg }.
Acks == [ok : BOOLEAN, msg : {"m"}]

\* req.body after destructuring.  /monitors and /groups read only uri and
\* credentials.
EmitBodies ==
  [kind : {"emit"},
   uri : Uris \cup {Undefined}, credentials : Credentials \cup {Undefined},
   event : Events \cup {Undefined}, payload : Payloads \cup {Undefined}]

ListBodies(kind) ==
  [kind : {kind},
   uri : Uris \cup {Undefined}, credentials : Credentials \cup {Undefined},
   event : {Undefined}, payload : {Undefined}]

\* ------------------------------------------------------ JavaScript objects
\* An object with integer-like keys is a sequence of <<key, value>> pairs
\* in ascending key order, the order in which Object.values enumerates it.
ObjKeys(o) == {o[i][1] : i \in DOMAIN o}

ObjHas(o, k) == \E i \in DOMAIN o : o[i][1] = k

\* Mutant of the property write: the pair is added without replacing an
\* existing one.
ObjSet_Append(o, k, v) == Append(o, <<k, v>>)

\* o[k] = v
ObjSet(o, k, v) ==
  IF ObjHas(o, k)
  THEN [i \in DOMAIN o |-> IF o[i][1] = k THEN <<k, v>> ELSE o[i]]
  ELSE SelectSeq(o, LAMBDA p : p[1] < k) \o << <<k, v>> >>
         \o SelectSeq(o, LAMBDA p : p[1] > k)

\* delete o[k]
ObjDelete(o, k) == SelectSeq(o, LAMBDA p : p[1] # k)

\* Object.values(o)
ObjectValues(o) == [i \in DOMAIN o |-> o[i][2]]

\* The object literal with the entries of the mapping m.
RECURSIVE ToObj(_)
ToObj(m) ==
  IF DOMAIN m = {} THEN << >>
  ELSE LET k == CHOOSE x \in DOMAIN m : \A y \in DOMAIN m : x <= y
       IN  << <<k, m[k]>> >> \o ToObj([y \in DOMAIN m \ {k} |-> m[y]])

\* Payloads of "monitorList": mappings from id to the monitor of that id.
MonitorMappings ==
  {m \in UNION {[D -> Entities] : D \in SUBSET Ids} :
     \A k \in DOMAIN m : m[k].id = k}
MonitorLists == {ToObj(m) : m \in MonitorMappings}

\* Payloads of "updateMonitorIntoList": one monitor under an envelope key.
Envelopes == {<< <<"x", e>> >> : e \in Entities}

\* ---------------------------------------------------------------- state
VARIABLES
  sockets,      \* the registry: uri -> [socket, monitors]          (l.15-17)
  transports,   \* the Socket objects created by io(), in creation order
  pc,           \* where each request's handler stands
  body,         \* what each handler's closures keep of req.body
  timer,        \* timeoutTimer of each /emit request
  handle,       \* the socket a request's connectSocket call resolved with
  res,          \* the res.status().json() calls made for each request
  atCall,       \* what connectSocket found when the request called it
  got,          \* the acknowledgement payload delivered to each request
  pushes,       \* number of push events delivered so far
  reference     \* reference mapping id -> monitor of each transport

vars ==
  <<sockets, transports, pc, body, timer, handle, res, atCall, got, pushes,
    reference>>

NoBody == [kind |-> "none", uri |-> Undefined, event |-> Undefined]

\* The variables of a handler that its callbacks still read once it has
\* suspended: the route, uri (push listeners, cache read) and event (timer
\* callback).  credentials live on in the listeners of the socket the call
\* created; a handler that returned at validation keeps nothing.
Kept(b) ==
  IF b.uri = Undefined \/ b.credentials = Undefined
       \/ (b.kind = "emit" /\ (b.event = Undefined \/ b.payload = Undefined))
  THEN [kind |-> b.kind, uri |-> Undefined, event |-> Undefined]
  ELSE [kind |-> b.kind, uri |-> b.uri, event |-> b.event]

\* The socket ids in use.
SocketIds == DOMAIN transports

\* ------------------------------------------------------------- responses
NoAck == [ok |-> FALSE, msg |-> Undefined]

JsonError(status, error, event) ==
  [status |-> status, shape |-> "error", error |-> error, event |-> event,
   ack |-> NoAck, list |-> << >>]

JsonAck(status, ack) ==
  [status |-> status, shape |-> "ack", error |-> Undefined,
   event |-> Undefined, ack |-> ack, list |-> << >>]

JsonList(list) ==
  [status |-> 200, shape |-> "list", error |-> Undefined,
   event |-> Undefined, ack |-> NoAck, list |-> list]

\* The two validation messages (written here without their backquotes).
EmitRequired == "uri, credentials, event, and payload are required"
ListRequired == "uri and credentials are required"

\* ------------------------------------------------------------ validation
\* Mutant of the /emit validation: payload is not checked.
EmitInvalid_NoPayload(b) ==
  \/ b.uri = Undefined
  \/ b.credentials = Undefined
  \/ b.event = Undefined

EmitInvalid(b) ==
  \/ b.uri = Undefined
  \/ b.credentials = Undefined
  \/ b.event = Undefined
  \/ b.payload = Undefined

ListInvalid(b) ==
  \/ b.uri = Undefined
  \/ b.credentials = Undefined

Invalid(b) == IF b.kind = "emit" THEN EmitInvalid(b) ELSE ListInvalid(b)

Required(kind) == IF kind = "emit" THEN EmitRequired ELSE ListRequired

\* --------------------------------------------------------- connectSocket
\* Mutants of the registry lookup: reuse only an established socket, and
\* never reuse.
HasEntry_Established(u) ==
  u \in DOMAIN sockets /\ transports[sockets[u].socket].promise # "pending"

HasEntry_Never(u) == FALSE

\* if (sockets[uri])
HasEntry(u) == u \in DOMAIN sockets

\* How far the establishment for u has got (what a connectSocket call for u
\* meets): "absent" when no socket was created for u yet, else the state of
\* the readiness promise of the registered socket.
Establishment(u) ==
  IF u \in DOMAIN sockets THEN transports[sockets[u].socket].promise
  ELSE "absent"

\* io(uri, ...) and the listeners registered on it: a socket that is not
\* connected yet, whose readiness promise is pending and awaited by `owner`.
\* challenges, logins and loginAcks count and log the loginRequired events,
\* the logins emitted and the login acknowledgements still owed; lastLogin
\* is the response.ok of the last login acknowledgement.
NewSocket(u, c, owner) ==
  [uri |-> u, credentials |-> c, connected |-> FALSE, promise |-> "pending",
   error |-> Undefined, owner |-> owner, challenges |-> 0,
   logins |-> << >>, loginAcks |-> 0, lastLogin |-> "none"]

\* sockets[uri] = { socket, monitors: [] }
Register(u, s) ==
  [x \in DOMAIN sockets \cup {u} |->
     IF x = u THEN [socket |-> s, monitors |-> << >>] ELSE sockets[x]]

\* Mutant of the promise: the last settlement wins.
Settle_LastWins(promise, outcome) == outcome

\* resolve / reject of a promise: the first settlement wins.
Settle(promise, outcome) == IF promise = "pending" THEN outcome ELSE promise

\* ------------------------------------------- the code after `await`
\* .filter((m) => m.type === "group").map((group) => ({ id, name }))
\* Mutant of the /groups projection: the type filter is left out.
GroupsOf_NoFilter(o) ==
  LET gs == ObjectValues(o)
  IN  [i \in DOMAIN gs |-> [id |-> gs[i].id, name |-> gs[i].name]]

GroupsOf(o) ==
  LET gs == SelectSeq(ObjectValues(o), LAMBDA m : m.type = "group")
  IN  [i \in DOMAIN gs |-> [id |-> gs[i].id, name |-> gs[i].name]]

\* What the handler of `kind` writes to res once connectSocket has resolved
\* with a socket whose `connected` flag is conn.
AfterAwaitRes(kind, conn, monitors) ==
  IF ~conn THEN << JsonError(503, "Socket.IO disconnected", Undefined) >>
  ELSE IF kind = "emit" THEN << >>
  ELSE IF kind = "monitors" THEN << JsonList(ObjectValues(monitors)) >>
  ELSE << JsonList(GroupsOf(monitors)) >>

\* Mutant of the connected check: /emit emits whatever the socket's state.
AfterAwaitPc_NoCheck(kind, conn) ==
  IF kind = "emit" THEN "awaitAck" ELSE "returned"

\* Where the handler stands afterwards: /emit has emitted the event and
\* registered the acknowledgement callback; every other path has returned.
AfterAwaitPc(kind, conn) ==
  IF conn /\ kind = "emit" THEN "awaitAck" ELSE "returned"

\* --------------------------------------------------------------- Init
Init ==
  /\ sockets = << >>
  /\ transports = << >>
  /\ pc = [r \in Reqs |-> "new"]
  /\ body = [r \in Reqs |-> NoBody]
  /\ timer = [r \in Reqs |-> "none"]
  /\ handle = [r \in Reqs |-> 0]
  /\ res = [r \in Reqs |-> << >>]
  /\ atCall = [r \in Reqs |-> "none"]
  /\ got = [r \in Reqs |-> NoAck]
  /\ pushes = 0
  /\ reference = << >>

\* ----------------------------------------------------------- handlers
\* The handler of one route, from its first line to its first suspension
\* or return: validation, setTimeout (for /emit), connectSocket and, when
\* connectSocket resolves at once, the code after the await.  Requests
\* arrive in index order, and new destinations are named in the order u1,
\* u2 (the names are interchangeable).
Handler(r, b) ==
  /\ pc[r] = "new"
  /\ \A q \in Reqs : q < r => pc[q] # "new"
  /\ b.uri = "u2" => HasEntry("u1")
  /\ body' = [body EXCEPT ![r] = Kept(b)]
  /\ IF Invalid(b)
     THEN /\ res' = [res EXCEPT ![r] =
                       << JsonError(400, Required(b.kind), Undefined) >>]
          /\ pc' = [pc EXCEPT ![r] = "returned"]
          /\ UNCHANGED <<sockets, transports, timer, handle, atCall, got, pushes, reference>>
     ELSE /\ timer' = [timer EXCEPT ![r] = IF b.kind = "emit" THEN "armed" ELSE @]
          /\ atCall' = [atCall EXCEPT ![r] = Establishment(b.uri)]
          /\ IF HasEntry(b.uri)
             THEN LET s == sockets[b.uri].socket
                      conn == transports[s].connected
                  IN  /\ handle' = [handle EXCEPT ![r] = s]
                      /\ res' = [res EXCEPT ![r] =
                                   AfterAwaitRes(b.kind, conn, sockets[b.uri].monitors)]
                      /\ pc' = [pc EXCEPT ![r] = AfterAwaitPc(b.kind, conn)]
                      /\ UNCHANGED <<sockets, transports, reference>>
             ELSE LET s == Len(transports) + 1
                  IN  /\ transports' =
                           Append(transports, NewSocket(b.uri, b.credentials, r))
                      /\ sockets' = Register(b.uri, s)
                      /\ reference' = Append(reference, << >>)
                      /\ pc' = [pc EXCEPT ![r] = "awaitConnect"]
                      /\ UNCHANGED <<handle, res>>
  /\ UNCHANGED <<got, pushes>>

\* app.post("/emit")
PostEmit(r) == \E b \in EmitBodies : Handler(r, b)

\* app.post("/monitors")
PostMonitors(r) == \E b \in ListBodies("monitors") : Handler(r, b)

\* app.post("/groups")
PostGroups(r) == \E b \in ListBodies("groups") : Handler(r, b)

\* Mutant of the timer callback: the 504 body without the event name.
TimerFire_NoEvent(r) ==
  /\ timer[r] = "armed"
  /\ timer' = [timer EXCEPT ![r] = "fired"]
  /\ res' = [res EXCEPT ![r] = Append(@, JsonError(504, "ACK timeout", Undefined))]
  /\ UNCHANGED <<sockets, transports, pc, body, handle, atCall, got, pushes, reference>>

\* The setTimeout callback of an /emit request.
TimerFire(r) ==
  /\ timer[r] = "armed"
  /\ timer' = [timer EXCEPT ![r] = "fired"]
  /\ res' = [res EXCEPT ![r] = Append(@, JsonError(504, "ACK timeout", body[r].event))]
  /\ UNCHANGED <<sockets, transports, pc, body, handle, atCall, got, pushes, reference>>

\* Mutant of clearTimeout: the timer stays armed.
ClearTimeout_Noop(t) == t

\* clearTimeout(timeoutTimer): disarms a timer that has not fired.
ClearTimeout(t) == IF t = "armed" THEN "cleared" ELSE t

\* Mutant of the acknowledgement callback: the ok flag is not looked at.
AckRes_AlwaysSuccess(ack) == JsonAck(200, ack)

\* What the acknowledgement callback writes to res.
AckRes(ack) == IF ~ack.ok THEN JsonAck(400, ack) ELSE JsonAck(200, ack)

\* The acknowledgement callback of socket.emit(event, payload, cb): the
\* server acknowledges the event on the session it was emitted in.
AckArrives(r) ==
  /\ pc[r] = "awaitAck"
  /\ transports[handle[r]].connected
  /\ \E ack \in Acks :
       /\ res' = [res EXCEPT ![r] = Append(@, AckRes(ack))]
       /\ got' = [got EXCEPT ![r] = ack]
  /\ timer' = [timer EXCEPT ![r] = ClearTimeout(@)]
  /\ pc' = [pc EXCEPT ![r] = "acked"]
  /\ UNCHANGED <<sockets, transports, body, handle, atCall, pushes, reference>>

\* ------------------------------------------------------- socket events
\* The continuation of the request awaiting the promise of socket s when
\* the promise settles with `outcome`: on "resolved" the code after the
\* await runs; on "rejected" the await throws and the async handler ends
\* (no try/catch, no response written; an armed timer stays armed).
Release(s, outcome, conn) ==
  LET o == transports[s].owner
  IN  IF transports[s].promise # "pending"
      THEN UNCHANGED <<pc, handle, res>>
      ELSE IF outcome = "resolved"
      THEN /\ handle' = [handle EXCEPT ![o] = s]
           /\ res' = [res EXCEPT ![o] = @ \o
                        AfterAwaitRes(body[o].kind, conn,
                                      sockets[transports[s].uri].monitors)]
           /\ pc' = [pc EXCEPT ![o] = AfterAwaitPc(body[o].kind, conn)]
      ELSE /\ pc' = [pc EXCEPT ![o] = "aborted"]
           /\ UNCHANGED <<handle, res>>

\* socket.on("connect"): the transport is up (first connection or one of
\* the automatic reconnections of `reconnection: true`).  The listener
\* only logs.
Connect(s) ==
  /\ ~transports[s].connected
  /\ transports' = [transports EXCEPT ![s].connected = TRUE]
  /\ UNCHANGED <<sockets, pc, body, timer, handle, res, atCall, got, pushes, reference>>

\* socket.on("disconnect", reason): reject(reason).  The session is gone,
\* and with it the acknowledgements the server still owed on it.
Disconnect(s) ==
  /\ transports[s].connected
  /\ \E reason \in Reasons :
       transports' = [transports EXCEPT
         ![s].connected = FALSE,
         ![s].promise = Settle(@, "rejected"),
         ![s].error = IF transports[s].promise = "pending" THEN reason ELSE @,
         ![s].loginAcks = 0]
  /\ LET o == transports[s].owner
     IN  pc' = [r \in Reqs |->
                  IF pc[r] = "awaitAck" /\ handle[r] = s THEN "ackLost"
                  ELSE IF r = o /\ transports[s].promise = "pending" THEN "aborted"
                  ELSE pc[r]]
  /\ UNCHANGED <<sockets, body, timer, handle, res, atCall, got, pushes, reference>>

\* The credentials the loginRequired listener of s closed over.
LoginCredentials(s) == transports[s].credentials

\* Mutant of the loginRequired listener: it logs in on the first challenge
\* only.
LoginRequired_Once(s) ==
  /\ transports[s].connected
  /\ transports' = [transports EXCEPT
       ![s].challenges = @ + 1,
       ![s].logins = IF @ = << >> THEN << transports[s].credentials >> ELSE @,
       ![s].loginAcks = IF transports[s].logins = << >> THEN @ + 1 ELSE @]
  /\ UNCHANGED <<sockets, pc, body, timer, handle, res, atCall, got, pushes, reference>>

\* socket.on("loginRequired"): socket.emit("login", credentials, cb).  (The
\* number of challenges is bounded by the specification.)
LoginRequired(s) ==
  /\ transports[s].connected
  /\ transports' = [transports EXCEPT
       ![s].challenges = @ + 1,
       ![s].logins = Append(@, LoginCredentials(s)),
       ![s].loginAcks = @ + 1]
  /\ UNCHANGED <<sockets, pc, body, timer, handle, res, atCall, got, pushes, reference>>

\* Mutant of the login acknowledgement: response.ok is not looked at.
LoginOutcome_AlwaysResolved(ok) == "resolved"

\* if (response.ok) resolve(socket) else reject("Login failed")
LoginOutcome(ok) == IF ok THEN "resolved" ELSE "rejected"

\* The acknowledgement callback of the login: resolve(socket) when
\* response.ok, reject("Login failed") otherwise.
LoginAck(s) ==
  /\ transports[s].connected
  /\ transports[s].loginAcks > 0
  /\ \E ok \in BOOLEAN :
       LET outcome == LoginOutcome(ok)
       IN  /\ transports' = [transports EXCEPT
                ![s].loginAcks = @ - 1,
                ![s].lastLogin = IF ok THEN "ok" ELSE "refused",
                ![s].promise = Settle(@, outcome),
                ![s].error = IF transports[s].promise = "pending" /\ ~ok
                             THEN "Login failed" ELSE @]
           /\ Release(s, outcome, transports[s].connected)
  /\ UNCHANGED <<sockets, body, timer, atCall, got, pushes, reference>>

\* ----------------------------------------------------------- push events
\* data = Object.values(data)[0]
Unwrap(envelope) == ObjectValues(envelope)[1]

\* sockets[uri].monitors after the listener of each push event has run.
OnMonitorList(monitors, data) == data

OnUpdateMonitorIntoList(monitors, envelope) ==
  LET data == Unwrap(envelope) IN ObjSet(monitors, data.id, data)

OnDeleteMonitorFromList(monitors, monitorId) == ObjDelete(monitors, monitorId)

\* The reference mapping id -> monitor under the same three events.
AsMapping(o) == [k \in ObjKeys(o) |-> (CHOOSE p \in {o[i] : i \in DOMAIN o} : p[1] = k)[2]]

RefReplace(m, data) == AsMapping(data)

RefUpsert(m, e) == [k \in DOMAIN m \cup {e.id} |-> IF k = e.id THEN e ELSE m[k]]

RefDelete(m, id) == [k \in DOMAIN m \ {id} |-> m[k]]

\* Mutant of the cache write: the push lands in every registered entry.
Store_All(s, monitors) ==
  sockets' = [u \in DOMAIN sockets |-> [sockets[u] EXCEPT !.monitors = monitors]]

\* Stores `monitors` in the entry of the uri the listeners of s closed over.
Store(s, monitors) ==
  sockets' = [sockets EXCEPT ![transports[s].uri].monitors = monitors]

\* The server pushes on a session that is up.
Pushable(s) == transports[s].connected

\* socket.on("monitorList").  (The three push listeners leave the count
\* `pushes` to the specification that bounds it.)
MonitorList(s) ==
  /\ Pushable(s)
  /\ \E data \in MonitorLists :
       /\ Store(s, OnMonitorList(sockets[transports[s].uri].monitors, data))
       /\ reference' = [reference EXCEPT ![s] = RefReplace(@, data)]
  /\ UNCHANGED <<transports, pc, body, timer, handle, res, atCall, got>>

\* socket.on("updateMonitorIntoList")
UpdateMonitorIntoList(s) ==
  /\ Pushable(s)
  /\ \E envelope \in Envelopes :
       /\ Store(s, OnUpdateMonitorIntoList(sockets[transports[s].uri].monitors, envelope))
       /\ reference' = [reference EXCEPT ![s] = RefUpsert(@, envelope[1][2])]
  /\ UNCHANGED <<transports, pc, body, timer, handle, res, atCall, got>>

\* socket.on("deleteMonitorFromList")
DeleteMonitorFromList(s) ==
  /\ Pushable(s)
  /\ \E monitorId \in Ids :
       /\ Store(s, OnDeleteMonitorFromList(sockets[transports[s].uri].monitors, monitorId))
       /\ reference' = [reference EXCEPT ![s] = RefDelete(@, monitorId)]
  /\ UNCHANGED <<transports, pc, body, timer, handle, res, atCall, got>>

\* ------------------------------------------------------- specification
\* Any one of the three push events on socket s.
Push(s) ==
  \/ MonitorList(s)
  \/ UpdateMonitorIntoList(s)
  \/ DeleteMonitorFromList(s)

\* Every operation of the program; at most MaxPush push events happen.
Next ==
  \/ \E r \in Reqs : PostEmit(r)
  \/ \E r \in Reqs : PostMonitors(r)
  \/ \E r \in Reqs : PostGroups(r)
  \/ \E r \in Reqs : TimerFire(r)
  \/ \E r \in Reqs : AckArrives(r)
  \/ \E s \in SocketIds : Connect(s)
  \/ \E s \in SocketIds : Disconnect(s)
  \/ \E s \in SocketIds :
       transports[s].challenges < MaxChallenges /\ LoginRequired(s)
  \/ \E s \in SocketIds : LoginAck(s)
  \/ \E s \in SocketIds :
       pushes < MaxPush /\ pushes' = pushes + 1 /\ Push(s)

Spec == Init /\ [][Next]_vars

\* setTimeout: an armed timer that is not cleared fires.
FairSpec == Spec /\ \A r \in Reqs : WF_vars(TimerFire(r))

\* The entity cache under longer push sequences (up to MaxPushSeq events),
\* read by the two list routes: the operations that read or write
\* sockets[uri].monitors, on connections that stay up.
NextCache ==
  \/ \E r \in Reqs : PostMonitors(r)
  \/ \E r \in Reqs : PostGroups(r)
  \/ \E s \in SocketIds : Connect(s)
  \/ \E s \in SocketIds :
       transports[s].challenges < MaxChallenges /\ LoginRequired(s)
  \/ \E s \in SocketIds : LoginAck(s)
  \/ \E s \in SocketIds :
       pushes < MaxPushSeq /\ pushes' = pushes + 1 /\ Push(s)

CacheSpec == Init /\ [][NextCache]_vars


\* ===================================================================
\* Properties
\* ===================================================================
\* The transport a request's connectSocket call created, if any.
Created(r) == {s \in SocketIds : transports[s].owner = r}

\* The transports created for destination u.
TransportsOf(u) == {s \in SocketIds : transports[s].uri = u}

\* C1: every /emit request that passed validation gets at most one
\* outcome: once it has been answered, a later acknowledgement or timer
\* firing writes no second response.
C1_AtMostOneOutcome ==
  \A r \in Reqs : body[r].kind = "emit" => Len(res[r]) <= 1

\* C2: when the establishment for a destination has failed (login refused
\* or disconnect before ready), the registry holds no entry for that
\* destination.
C2_NoEntryAfterFailure ==
  \A s \in SocketIds :
    transports[s].promise = "rejected" => transports[s].uri \notin DOMAIN sockets

\* C3 (as claimed): a request that calls connectSocket for a destination
\* whose first establishment is still in flight starts an establishment of
\* its own (creates its own transport) and overwrites the registry entry.
C3_DuplicateEstablishment ==
  \A r \in Reqs :
    atCall[r] = "pending" =>
      \E s \in Created(r) : sockets[body[r].uri].socket = s

\* C3 (amended): a request that calls connectSocket for a destination whose
\* first establishment is still in flight creates no transport and gets the
\* socket the first request registered; and no step ever replaces the
\* socket of a registry entry.
C3_NoDuplicateEstablishment ==
  /\ [](\A r \in Reqs :
          atCall[r] = "pending" =>
            /\ Created(r) = {}
            /\ (pc[r] # "new" => handle[r] = sockets[body[r].uri].socket)
            /\ transports[sockets[body[r].uri].socket].owner # r)
  /\ [][\A u \in DOMAIN sockets :
          u \in DOMAIN sockets' /\ sockets'[u].socket = sockets[u].socket]_vars

C3_Witness ==
  \E r \in Reqs : atCall[r] = "pending" /\ handle[r] # 0

\* C4: the registry holds at most one entry per destination, and at most
\* one transport has ever been created for a destination: the one its
\* entry holds.
C4_OneTransportPerDestination ==
  \A u \in Uris :
    /\ Cardinality(TransportsOf(u)) <= 1
    /\ u \in DOMAIN sockets <=> TransportsOf(u) # {}
    /\ u \in DOMAIN sockets => TransportsOf(u) = {sockets[u].socket}

C4_Witness ==
  \E r1, r2 \in Reqs :
    /\ r1 # r2
    /\ body[r1].uri = body[r2].uri
    /\ atCall[r1] = "absent"
    /\ atCall[r2] \in {"pending", "resolved", "rejected"}

\* C5: a request for a destination whose establishment has already
\* completed gets the registered socket at once: no transport is created,
\* no login is emitted, the registry is unchanged, whatever the request's
\* credentials.
C5_SequentialReuse ==
  [][\A r \in Reqs :
       (/\ pc[r] = "new"
        /\ pc'[r] # "new"
        /\ body'[r].uri # Undefined
        /\ Establishment(body'[r].uri) = "resolved")
       => /\ handle'[r] = sockets[body'[r].uri].socket
          /\ pc'[r] \in {"returned", "awaitAck"}
          /\ transports' = transports
          /\ sockets' = sockets]_vars

C5_Witness ==
  \E r \in Reqs : atCall[r] = "resolved" /\ handle[r] # 0

\* C6: when the transport of a new destination is connected and the server
\* sends no login challenge, establishment eventually resolves (unless the
\* transport goes down first).
C6_ConnectedResolves ==
  \A s \in 1 .. MaxReq :
    (/\ s \in SocketIds
     /\ transports[s].connected
     /\ transports[s].promise = "pending"
     /\ transports[s].challenges = 0)
    ~> (/\ s \in SocketIds
        /\ \/ transports[s].promise = "resolved"
           \/ transports[s].challenges > 0
           \/ ~transports[s].connected)

\* A request has failed: its handler was aborted by a failed establishment,
\* or a response with a failure status was written for it.
Failed(r) ==
  \/ pc[r] = "aborted"
  \/ \E i \in DOMAIN res[r] : res[r][i].status >= 400

\* The caller received (as the first response written) a failure body: one
\* with an error field, or the rejecting acknowledgement passed through
\* (which fields that carries is the remote server's choice).
ErrorAnswered(r) ==
  /\ Len(res[r]) > 0
  /\ \/ res[r][1].shape = "error"
     \/ res[r][1].shape = "ack" /\ res[r][1].status = 400

\* C7: every request that fails, on any route and for any cause, eventually
\* receives a structured response carrying an error field.
C7_EveryFailureAnswered ==
  \A r \in Reqs : Failed(r) ~> ErrorAnswered(r)

\* The transport went down under request r: while r awaited the
\* establishment, or while r awaited an acknowledgement.
ClosedUnder(r) ==
  \/ pc[r] = "aborted" /\ \E s \in Created(r) : transports[s].error \in Reasons
  \/ pc[r] = "ackLost"

\* C8: once the transport of a registered destination is closed, every
\* request pending on it eventually ends with a failure response, and a
\* request that arrives while it is down is answered with a failure at once.
C8_ClosedTransportFails ==
  /\ \A r \in Reqs :
       ClosedUnder(r) ~> (\E i \in DOMAIN res[r] : res[r][i].status >= 400)
  /\ [][\A r \in Reqs :
          (/\ pc[r] = "new"
           /\ pc'[r] # "new"
           /\ body'[r].uri # Undefined
           /\ Establishment(body'[r].uri) \in {"resolved", "rejected"}
           /\ ~transports[sockets[body'[r].uri].socket].connected)
          => /\ pc'[r] = "returned"
             /\ Len(res'[r]) = 1
             /\ res'[r][1].status >= 400]_vars

\* The timeout failure of request r.
AckTimeout(r) == JsonError(504, "ACK timeout", body[r].event)

\* C10: an /emit request that emitted its event on a connected socket and
\* is never acknowledged gets the timeout failure (504, "ACK timeout", with
\* its event name), and nothing else.
C10_UnackedEmitTimesOut ==
  /\ \A r \in Reqs :
       pc[r] \in {"awaitAck", "ackLost"}
         ~> (pc[r] = "acked" \/ res[r] = << AckTimeout(r) >>)
  /\ [](\A r \in Reqs :
          pc[r] \in {"awaitAck", "ackLost"} =>
            /\ body[r].event \in Events
            /\ res[r] \in { << >>, << AckTimeout(r) >> }
            /\ res[r] = << >> <=> timer[r] = "armed")

C10_Witness ==
  \E r \in Reqs :
    /\ pc[r] = "awaitAck"
    /\ timer[r] = "fired"
    /\ res[r] = << AckTimeout(r) >>
    /\ transports[handle[r]].connected

\* C9: after any sequence of push events on a connection, the entity cache
\* holds one entry per key and equals, as a mapping from id to entity, the
\* reference mapping under the same events in the same order.
C9_CacheMatchesReference ==
  \A s \in SocketIds :
    LET o == sockets[transports[s].uri].monitors
    IN  /\ Len(o) = Cardinality(ObjKeys(o))
        /\ AsMapping(o) = reference[s]

C9_Witness ==
  \E s \in SocketIds :
    /\ pushes = MaxPushSeq
    /\ DOMAIN reference[s] = {2}
    /\ reference[s][2].type = "http"
    /\ ObjectValues(sockets[transports[s].uri].monitors)
         = << [id |-> 2, type |-> "http", name |-> "G"] >>

\* The login handshake under repeated challenges (up to MaxLogins per
\* socket) and reconnections, driven by the two list routes.
NextLogin ==
  \/ \E r \in Reqs : PostMonitors(r)
  \/ \E r \in Reqs : PostGroups(r)
  \/ \E s \in SocketIds : Connect(s)
  \/ \E s \in SocketIds : Disconnect(s)
  \/ \E s \in SocketIds :
       transports[s].challenges < MaxLogins /\ LoginRequired(s)
  \/ \E s \in SocketIds : LoginAck(s)

LoginSpec == Init /\ [][NextLogin]_vars

\* The last response written for request r.
Last(r) == res[r][Len(res[r])]

\* In this step the connectSocket call of request r resolved with socket s.
Resolves(r, s) == handle[r] = 0 /\ handle'[r] = s /\ s # 0

\* C11: when the socket a request's connectSocket call resolved with is not
\* connected, the request is answered 503 "Socket.IO disconnected" and
\* returns: /emit never emits the event, /monitors and /groups return no
\* cache contents.
C11_NotConnectedFails ==
  [][\A r \in Reqs :
       /\ \A s \in SocketIds :
            (Resolves(r, s) /\ ~transports[s].connected) =>
              /\ res'[r] = Append(res[r], JsonError(503, "Socket.IO disconnected", Undefined))
              /\ pc'[r] = "returned"
       /\ pc[r] = "returned" =>
            /\ pc'[r] = "returned"
            /\ \A i \in 1..Len(res'[r]) :
                 i > Len(res[r]) => res'[r][i].shape = "error"]_vars

C11_Witness ==
  \E r \in Reqs :
    /\ body[r].kind = "emit"
    /\ handle[r] # 0 /\ ~transports[handle[r]].connected
    /\ pc[r] = "returned"
    /\ res[r] = << JsonError(503, "Socket.IO disconnected", Undefined) >>

\* C12: a request with a missing required field is answered 400 with the
\* route's validation message and changes nothing else: no registry entry,
\* no transport, no timer, nothing emitted.
C12_ValidationLeavesNoTrace ==
  [][\A r \in Reqs :
       (pc[r] = "new" /\ pc'[r] # "new" /\ body'[r].uri = Undefined) =>
         /\ res'[r] = << JsonError(400, Required(body'[r].kind), Undefined) >>
         /\ pc'[r] = "returned"
         /\ UNCHANGED <<sockets, transports, timer, handle, atCall, got,
                        pushes, reference>>
         /\ \A q \in Reqs \ {r} :
              pc'[q] = pc[q] /\ res'[q] = res[q] /\ body'[q] = body[q]]_vars

C12_Witness ==
  \E r1, r2 \in Reqs :
    /\ body[r1].kind = "emit" /\ body[r2].kind \in {"monitors", "groups"}
    /\ body[r1].uri = Undefined /\ body[r2].uri = Undefined
    /\ res[r1] = << JsonError(400, EmitRequired, Undefined) >>
    /\ res[r2] = << JsonError(400, ListRequired, Undefined) >>

\* C13: when the acknowledgement is the first thing to answer an /emit
\* request, the response is the acknowledgement payload itself, with status
\* 400 when its ok flag is false and 200 when it is true.
C13_AckDecidesOutcome ==
  [][\A r \in Reqs :
       (pc[r] = "awaitAck" /\ pc'[r] = "acked" /\ res[r] = << >>) =>
         /\ got'[r] \in Acks
         /\ Len(res'[r]) = 1
         /\ res'[r][1].shape = "ack"
         /\ res'[r][1].ack = got'[r]
         /\ res'[r][1].status = (IF got'[r].ok THEN 200 ELSE 400)]_vars

C13_Witness ==
  \E r1, r2 \in Reqs :
    /\ pc[r1] = "acked" /\ pc[r2] = "acked"
    /\ got[r1].ok /\ ~got[r2].ok
    /\ Len(res[r1]) = 1 /\ Len(res[r2]) = 1

\* C15: an acknowledgement delivered while the deadline timer is armed
\* cancels the timer in the same step, and a cancelled timer never fires.
C15_AckCancelsTimer ==
  [][\A r \in Reqs :
       /\ (pc[r] = "awaitAck" /\ pc'[r] = "acked" /\ timer[r] = "armed") =>
            timer'[r] = "cleared"
       /\ timer[r] = "cleared" => timer'[r] = "cleared" /\ res'[r] = res[r]]_vars

C15_Witness ==
  \E r1, r2 \in Reqs :
    /\ timer[r1] = "cleared" /\ timer[r2] = "cleared"
    /\ got[r1].ok /\ ~got[r2].ok

\* list is exactly the members of all whose type is "group", in the order
\* of all, each reduced to its id and name.
IsGroupProjection(list, all) ==
  LET idx == {i \in DOMAIN all : all[i].type = "group"}
  IN  /\ Len(list) = Cardinality(idx)
      /\ \E f \in [DOMAIN list -> idx] :
           /\ \A j, k \in DOMAIN list : j < k => f[j] < f[k]
           /\ \A k \in DOMAIN list :
                /\ DOMAIN list[k] = {"id", "name"}
                /\ list[k].id = all[f[k]].id
                /\ list[k].name = all[f[k]].name

\* In this step request r was answered with a list.
ListAnswered(r) ==
  /\ Len(res'[r]) = Len(res[r]) + 1
  /\ res'[r][Len(res'[r])].shape = "list"

\* C14: whenever /groups answers, its list is what /monitors would answer
\* on the same cache, restricted to the entities of type "group" and
\* projected to id and name.
C14_GroupsProjectMonitors ==
  [][\A r \in Reqs :
       (ListAnswered(r) /\ body'[r].kind = "groups") =>
         IsGroupProjection(
           res'[r][Len(res'[r])].list,
           AfterAwaitRes("monitors", TRUE, sockets'[body'[r].uri].monitors)[1].list)]_vars

C14_Witness ==
  \E r1, r2 \in Reqs :
    /\ body[r1].kind = "groups" /\ body[r2].kind = "monitors"
    /\ body[r1].uri = body[r2].uri
    /\ res[r1] # << >> /\ res[r2] # << >>
    /\ Last(r1).shape = "list" /\ Last(r2).shape = "list"
    /\ Len(Last(r2).list) = 2 /\ Len(Last(r1).list) = 1
    /\ \E i \in 1..2 : Last(r2).list[i].type = "group"
                       /\ Last(r1).list[1].id = Last(r2).list[i].id

Challenged(s) == transports'[s].challenges = transports[s].challenges + 1

\* In this step a login acknowledgement was delivered on socket s.
LoginAcked(s) ==
  /\ transports'[s].connected
  /\ transports'[s].loginAcks = transports[s].loginAcks - 1

\* C16: a login challenge makes the socket emit the credentials and leaves
\* the readiness promise as it is; a login acknowledgement that meets a
\* pending promise settles it by its ok flag (true: resolved with the
\* socket, handed to the awaiting request; false: rejected with "Login
\* failed"); and a pending promise is resolved by nothing but a login
\* acknowledgement with ok true.
C16_LoginAckDecides ==
  [][\A s \in SocketIds :
       /\ Challenged(s) =>
            /\ transports'[s].logins =
                 Append(transports[s].logins, transports[s].credentials)
            /\ transports'[s].promise = transports[s].promise
       /\ (LoginAcked(s) /\ transports[s].promise = "pending") =>
            IF transports'[s].lastLogin = "ok"
            THEN /\ transports'[s].promise = "resolved"
                 /\ handle'[transports[s].owner] = s
            ELSE /\ transports'[s].promise = "rejected"
                 /\ transports'[s].error = "Login failed"
                 /\ handle'[transports[s].owner] = 0
       /\ (transports[s].promise = "pending"
           /\ transports'[s].promise = "resolved") =>
            /\ LoginAcked(s)
            /\ transports[s].logins # << >>
            /\ transports'[s].lastLogin = "ok"]_vars

C16_Witness ==
  \E s1, s2 \in SocketIds :
    /\ transports[s1].promise = "resolved" /\ transports[s1].lastLogin = "ok"
    /\ handle[transports[s1].owner] = s1
    /\ transports[s2].promise = "rejected"
    /\ transports[s2].error = "Login failed"
    /\ transports[s2].lastLogin = "refused"

\* In this step socket s was disconnected.
Disconnected(s) == transports[s].connected /\ ~transports'[s].connected

\* C17: a disconnect that meets a pending readiness promise rejects it with
\* the disconnect reason; a disconnect that meets a settled promise leaves
\* the outcome and its error as they are.
C17_DisconnectBeforeAndAfter ==
  [][\A s \in SocketIds :
       Disconnected(s) =>
         IF transports[s].promise = "pending"
         THEN /\ transports'[s].promise = "rejected"
              /\ transports'[s].error \in Reasons
              /\ pc'[transports[s].owner] = "aborted"
         ELSE /\ transports'[s].promise = transports[s].promise
              /\ transports'[s].error = transports[s].error
              /\ handle' = handle]_vars

C17_Witness ==
  \E s1, s2 \in SocketIds :
    /\ transports[s1].promise = "rejected" /\ transports[s1].error \in Reasons
    /\ transports[s2].promise = "resolved" /\ ~transports[s2].connected

\* C18: on every socket the logins emitted are as many as the challenges
\* received, over reconnections too, each with the credentials the socket
\* was created with; these never change, and a login is emitted only in a
\* step that receives a challenge.
C18_OneLoginPerChallenge ==
  /\ [](\A s \in SocketIds :
          /\ Len(transports[s].logins) = transports[s].challenges
          /\ \A i \in DOMAIN transports[s].logins :
               transports[s].logins[i] = transports[s].credentials)
  /\ [][\A s \in SocketIds :
          /\ transports'[s].credentials = transports[s].credentials
          /\ transports'[s].logins # transports[s].logins =>
               /\ Challenged(s)
               /\ Len(transports'[s].logins) = Len(transports[s].logins) + 1]_vars

C18_Witness ==
  \E s1, s2 \in SocketIds :
    /\ transports[s1].credentials # transports[s2].credentials
    /\ transports[s1].error \in Reasons
    /\ transports[s1].connected /\ transports[s1].loginAcks >= 1
    /\ Len(transports[s1].logins) = MaxLogins
    /\ Len(transports[s2].logins) >= 1

\* Request r went on to use the socket it obtained: it emitted its event
\* or answered with the contents of the cache.
Proceeded(r) ==
  \/ pc[r] \in {"awaitAck", "acked", "ackLost"}
  \/ \E i \in DOMAIN res[r] : res[r][i].shape = "list"

\* C19: a request whose connectSocket call met an establishment that was
\* still in flight, or that has failed, does not go on to emit or to read
\* the cache.
C19_NoUseBeforeEstablished ==
  \A r \in Reqs : atCall[r] \in {"pending", "rejected"} => ~Proceeded(r)

====
